---- MODULE Spec2Model ----
(***************************************************************************)
(* A model of the tool layer and of the two driver loops of the            *)
(* repository: groq_base.py (interactive variant) and llama_base.py (batch *)
(* variant).                                                               *)
(*                                                                         *)
(* Text is modelled as a sequence of one-character strings, so that        *)
(* parsing (datetime.strptime), formatting (strftime, str of an int) and   *)
(* f-string interpolation are computed and not assumed.  A literal piece   *)
(* of a URL template is kept as one multi-character token.                 *)
(***************************************************************************)
EXTENDS Integers, Sequences, FiniteSets, TLC

VARIABLES
    fd_date,      \* format_date: the argument of the call
    fd_result,    \* format_date: how the call ended (None before it)
    today,        \* the local date the clock shows
    call,         \* the last tool invocation the agent made: [tool, args]
    response,     \* how the data API answers the request of that invocation
    sent,         \* per variant: the HTTP requests the invocation issued
    outcome,      \* per variant: how the invocation ended (None before it)
    pc,           \* where the driver loop of the program stands
    stdin,        \* groq_base.py: the lines not yet read from standard input
    consumed,     \* groq_base.py: the lines input() has returned, in order
    qi,           \* llama_base.py: the position of the for loop in queries
    invoked,      \* the queries passed to the agent, in order
    toolcalls,    \* tool invocations made by the running agent invocation
    stdout,       \* what was printed, in order
    logged,       \* llama_base.py: the records the loop gave to logger
    error         \* the exception that ended the program (None if none did)

dateVars == <<fd_date, fd_result>>
toolVars == <<call, response, sent, outcome>>
loopVars == <<pc, stdin, consumed, qi, invoked, toolcalls, stdout, logged, error>>
vars == <<dateVars, today, toolVars, loopVars>>

None == [kind |-> "none"]

-----------------------------------------------------------------------------
(* Text helpers *)

DigitChars == <<"0", "1", "2", "3", "4", "5", "6", "7", "8", "9">>

IsDigit(c) == \E i \in 1..10 : DigitChars[i] = c

DigitVal(c) == (CHOOSE i \in 1..10 : DigitChars[i] = c) - 1

AllDigits(f) == \A i \in 1..Len(f) : IsDigit(f[i])

\* int(f) of a non-empty field of digits
RECURSIVE ToInt(_)
ToInt(f) ==
    IF Len(f) = 0 THEN 0
    ELSE 10 * ToInt(SubSeq(f, 1, Len(f) - 1)) + DigitVal(f[Len(f)])

\* str(n) for n >= 0
RECURSIVE NatStr(_)
NatStr(n) ==
    IF n < 10 THEN <<DigitChars[n + 1]>>
    ELSE NatStr(n \div 10) \o <<DigitChars[(n % 10) + 1]>>

\* str(n), as an f-string renders an int
IntStr(n) == IF n < 0 THEN <<"-">> \o NatStr(-n) ELSE NatStr(n)

\* zero padding to width w, as strftime pads %m and %d
RECURSIVE ZeroPad(_, _)
ZeroPad(s, w) == IF Len(s) >= w THEN s ELSE ZeroPad(<<"0">> \o s, w)

\* the fields of s between occurrences of the character sep
RECURSIVE SplitOn(_, _)
SplitOn(s, sep) ==
    IF \A i \in 1..Len(s) : s[i] # sep THEN <<s>>
    ELSE LET k == CHOOSE i \in 1..Len(s) :
                     s[i] = sep /\ \A j \in 1..(i - 1) : s[j] # sep
         IN  <<SubSeq(s, 1, k - 1)>> \o SplitOn(SubSeq(s, k + 1, Len(s)), sep)

-----------------------------------------------------------------------------
(* datetime: dates, strptime and strftime *)

Date(y, m, d) == [year |-> y, month |-> m, day |-> d]

IsLeap(y) == (y % 4 = 0 /\ y % 100 # 0) \/ y % 400 = 0

DaysInMonth(y, m) ==
    IF m = 2 THEN (IF IsLeap(y) THEN 29 ELSE 28)
    ELSE IF m \in {4, 6, 9, 11} THEN 30 ELSE 31

\* the two formats format_date tries, as directive sequences
FmtYmd == <<"%Y", "-", "%m", "-", "%d">>
FmtDmy == <<"%d", "/", "%m", "/", "%Y">>

Return(v) == [kind |-> "return", value |-> v]
Raise(e) == [kind |-> "raise", exc |-> e]

\* the regular expression strptime compiles for one directive, applied to a
\* whole field: %Y is \d\d\d\d, %m is 1[0-2]|0[1-9]|[1-9],
\* %d is 3[01]|[12]\d|0[1-9]|[1-9]| [1-9]
FieldMatches(dir, f) ==
    CASE dir = "%Y" -> Len(f) = 4 /\ AllDigits(f)
      [] dir = "%m" -> Len(f) \in {1, 2} /\ AllDigits(f) /\ ToInt(f) \in 1..12
      [] dir = "%d" -> \/ Len(f) \in {1, 2} /\ AllDigits(f) /\ ToInt(f) \in 1..31
                       \/ Len(f) = 2 /\ f[1] = " " /\ IsDigit(f[2]) /\ f[2] # "0"

FieldValue(f) == IF f[1] = " " THEN ToInt(Tail(f)) ELSE ToInt(f)

\* datetime.strptime(s, fmt): ValueError when s does not match the format as
\* a whole, or when the fields name no date (year 0, day beyond the month)
Strptime(s, fmt) ==
    LET fields == SplitOn(s, fmt[2])
        dirs == <<fmt[1], fmt[3], fmt[5]>>
        At(dir) == fields[CHOOSE i \in 1..3 : dirs[i] = dir]
    IN  IF Len(fields) # 3 \/ \E i \in 1..3 : ~FieldMatches(dirs[i], fields[i])
        THEN Raise("ValueError")
        ELSE LET y == FieldValue(At("%Y"))
                 m == FieldValue(At("%m"))
                 d == FieldValue(At("%d"))
             IN  IF y < 1 \/ d > DaysInMonth(y, m)
                 THEN Raise("ValueError")
                 ELSE Return(Date(y, m, d))

\* one directive of strftime.  %Y is handed to the C library, which pads a
\* year below 1000 to four digits on some platforms and not on others
\* (padsYear)
Directive(dir, dt, padsYear) ==
    CASE dir = "%Y" -> IF padsYear THEN ZeroPad(NatStr(dt.year), 4)
                       ELSE NatStr(dt.year)
      [] dir = "%m" -> ZeroPad(NatStr(dt.month), 2)
      [] dir = "%d" -> ZeroPad(NatStr(dt.day), 2)
      [] OTHER -> <<dir>>

RECURSIVE Strftime(_, _, _)
Strftime(dt, fmt, padsYear) ==
    IF Len(fmt) = 0 THEN <<>>
    ELSE Directive(Head(fmt), dt, padsYear) \o Strftime(dt, Tail(fmt), padsYear)

\* format_date with the second format read month first (%m/%d/%Y)
FmtMdy == <<"%m", "/", "%d", "/", "%Y">>
format_date_month_first(date, now, padsYear) ==
    LET first == Strptime(date, FmtYmd)
    IN  IF first.kind = "return"
        THEN Return(Strftime(first.value, FmtYmd, padsYear))
        ELSE LET second == Strptime(date, FmtMdy)
             IN  IF second.kind = "return"
                 THEN Return(Strftime(second.value, FmtYmd, padsYear))
                 ELSE Return(Strftime(now, FmtYmd, padsYear))

\* format_date without the inner try: the second ValueError comes out
format_date_no_fallback(date, now, padsYear) ==
    LET first == Strptime(date, FmtYmd)
    IN  IF first.kind = "return"
        THEN Return(Strftime(first.value, FmtYmd, padsYear))
        ELSE LET second == Strptime(date, FmtDmy)
             IN  IF second.kind = "return"
                 THEN Return(Strftime(second.value, FmtYmd, padsYear))
                 ELSE second

\* format_date(date), with the clock reading and the platform as inputs
format_date(date, now, padsYear) ==
    LET first == Strptime(date, FmtYmd)
    IN  IF first.kind = "return"
        THEN Return(Strftime(first.value, FmtYmd, padsYear))
        ELSE IF first.exc # "ValueError" THEN first
        ELSE LET second == Strptime(date, FmtDmy)
             IN  IF second.kind = "return"
                 THEN Return(Strftime(second.value, FmtYmd, padsYear))
                 ELSE IF second.exc # "ValueError" THEN second
                 ELSE Return(Strftime(now, FmtYmd, padsYear))

-----------------------------------------------------------------------------
(* The date strings the model feeds in *)

YearVals == {0, 999, 2023, 2024}
MonthVals == {0, 1, 2, 6, 12, 13}
DayVals == {0, 1, 9, 28, 29, 30, 31, 32}

\* a number as a field: zero padded to width w, or as written (w = 0)
Field(n, w) == ZeroPad(NatStr(n), w)

Join3(a, b, c, sep) == a \o <<sep>> \o b \o <<sep>> \o c

DateStrings ==
    UNION { { Join3(Field(y, 4), Field(m, 2), Field(d, 2), "-"),
              Join3(Field(y, 4), Field(m, 0), Field(d, 0), "-"),
              Join3(Field(y, 0), Field(m, 2), Field(d, 2), "-"),
              Join3(Field(d, 2), Field(m, 2), Field(y, 4), "/"),
              Join3(Field(d, 0), Field(m, 0), Field(y, 4), "/"),
              Join3(Field(m, 2), Field(d, 2), Field(y, 4), "/"),
              Join3(Field(y, 4), Field(m, 2), Field(d, 2), "/"),
              Join3(Field(y, 4), Field(m, 2), Field(d, 2), "."),
              Join3(Field(d, 2), Field(m, 2), Field(y, 4), "-"),
              Join3(Field(y, 4), Field(m, 2), <<" ">> \o Field(d, 0), "-"),
              Join3(Field(y, 4), Field(m, 2), Field(d, 2), "-") \o <<" ">> }
            : y \in YearVals, m \in MonthVals, d \in DayVals }
    \cup { <<>>, <<"t", "o", "d", "a", "y">>, <<"2", "0", "2", "4">>,
           <<"2", "0", "2", "4", "-", "0", "6">> }

\* the dates the clock may show
Todays == {Date(2024, 6, 30), Date(2026, 11, 3)}

-----------------------------------------------------------------------------
(* format_date called on its own *)

(* The data API and the requests library *)

\* os.getenv("SECTORS_API_KEY") and os.getenv("URL_API"), read once at start
SECTORS_API_KEY == "<SECTORS_API_KEY>"
URL_API == <<"<URL_API>">>

\* what the server may do with a request: no answer at all, or a status and
\* a body that is JSON (json |-> TRUE, with its value) or is not
NetworkError == [kind |-> "network_error"]
Http(status, isJson, v) ==
    [kind |-> "http", status |-> status, json |-> isJson, value |-> v]

Bodies == {[data |-> "rows"], [error |-> "no data"]}

Responses ==
    {NetworkError}
    \cup {Http(200, TRUE, b) : b \in Bodies}
    \cup {Http(st, FALSE, None) : st \in {200, 304, 404, 500}}
    \cup {Http(404, TRUE, [error |-> "no data"])}

\* a failure as requests.get and raise_for_status see one: no answer, or an
\* answer with a 4xx or 5xx status
IsFailure(resp) ==
    resp.kind = "network_error" \/ resp.status \in 400..599

\* requests.get(url, headers=headers): the request goes out once; a network
\* failure raises ConnectionError
HttpGet(url, headers) == [method |-> "GET", url |-> url, headers |-> headers]

RequestsGet(resp) ==
    IF resp.kind = "network_error" THEN Raise("ConnectionError") ELSE Return(resp)

\* response.raise_for_status(): HTTPError for a 4xx or 5xx status
RaiseForStatus(resp) ==
    IF resp.status \in 400..599 THEN Raise("HTTPError") ELSE Return(None)

\* response.json(): the decoded body; a body that is no JSON raises
\* requests.exceptions.JSONDecodeError (a RequestException) in requests 2.27
\* and later, a plain ValueError subclass before (newRequests)
ResponseJson(resp, newRequests) ==
    IF resp.json THEN Return(resp.value)
    ELSE Raise(IF newRequests THEN "requests.JSONDecodeError"
               ELSE "json.JSONDecodeError")

\* isinstance(e, requests.exceptions.RequestException)
IsRequestException(e) ==
    e \in {"ConnectionError", "HTTPError", "requests.JSONDecodeError"}

\* str(e): the message of the exception e
StrOf(e) ==
    CASE e = "ConnectionError" -> "Connection refused"
      [] e = "HTTPError" -> "Client or Server Error for url"
      [] OTHER -> "Expecting value"

\* json.dumps(v): the text of v, a str
JsonDumps(v) == [type |-> "str", text |-> v]

\* what one call of retrieve_from_endpoint did: the requests it issued and
\* how it ended
Ran(reqs, result) == [sent |-> reqs, result |-> result]

\* retrieve_from_endpoint of groq_base.py with the try of llama_base.py
\* around it
Groq_retrieve_catching(url, resp, newRequests) ==
    LET headers == [Authorization |-> SECTORS_API_KEY]
        got == RequestsGet(resp)
        tried ==
            IF got.kind = "raise" THEN got
            ELSE IF RaiseForStatus(resp).kind = "raise" THEN RaiseForStatus(resp)
            ELSE ResponseJson(resp, newRequests)
    IN  Ran(<<HttpGet(url, headers)>>,
            IF tried.kind = "raise" /\ IsRequestException(tried.exc)
            THEN Return(JsonDumps([error |-> StrOf(tried.exc)]))
            ELSE IF tried.kind = "raise" THEN tried
            ELSE Return(JsonDumps(tried.value)))

\* groq_base.py: retrieve_from_endpoint(url)
Groq_retrieve_from_endpoint(url, resp, newRequests) ==
    LET headers == [Authorization |-> SECTORS_API_KEY]
        got == RequestsGet(resp)
    IN  Ran(<<HttpGet(url, headers)>>,
            IF got.kind = "raise" THEN got
            ELSE IF RaiseForStatus(resp).kind = "raise" THEN RaiseForStatus(resp)
            ELSE LET body == ResponseJson(resp, newRequests)
                 IN  IF body.kind = "raise" THEN body
                     ELSE Return(JsonDumps(body.value)))

\* retrieve_from_endpoint of llama_base.py asking a second time after a
\* failure
Llama_retrieve_retrying(url, resp, newRequests) ==
    LET headers == [Authorization |-> SECTORS_API_KEY]
        got == RequestsGet(resp)
        tried ==
            IF got.kind = "raise" THEN got
            ELSE IF RaiseForStatus(resp).kind = "raise" THEN RaiseForStatus(resp)
            ELSE ResponseJson(resp, newRequests)
    IN  IF tried.kind = "raise" /\ IsRequestException(tried.exc)
        THEN Ran(<<HttpGet(url, headers), HttpGet(url, headers)>>,
                 Return([error |-> StrOf(tried.exc)]))
        ELSE Ran(<<HttpGet(url, headers)>>, tried)

\* retrieve_from_endpoint of llama_base.py without its try
Llama_retrieve_propagating(url, resp, newRequests) ==
    LET headers == [Authorization |-> SECTORS_API_KEY]
        got == RequestsGet(resp)
    IN  Ran(<<HttpGet(url, headers)>>,
            IF got.kind = "raise" THEN got
            ELSE IF RaiseForStatus(resp).kind = "raise" THEN RaiseForStatus(resp)
            ELSE ResponseJson(resp, newRequests))

\* llama_base.py: retrieve_from_endpoint(url)
Llama_retrieve_from_endpoint(url, resp, newRequests) ==
    LET headers == [Authorization |-> SECTORS_API_KEY]
        got == RequestsGet(resp)
        tried ==
            IF got.kind = "raise" THEN got
            ELSE IF RaiseForStatus(resp).kind = "raise" THEN RaiseForStatus(resp)
            ELSE ResponseJson(resp, newRequests)
    IN  Ran(<<HttpGet(url, headers)>>,
            IF tried.kind = "raise" /\ IsRequestException(tried.exc)
            THEN Return([error |-> StrOf(tried.exc)])
            ELSE tried)

-----------------------------------------------------------------------------
(* The tools.  args is the keyword arguments of the invocation: a function *)
(* from the names given to their values.                                   *)

Host == "https://api.sectors.app"

DefaultTopN == 5

\* top_n with another default
TopN_default_ten(args) == IF "top_n" \in DOMAIN args THEN args.top_n ELSE 10

\* the parameter top_n: int = 5
TopN(args) == IF "top_n" \in DOMAIN args THEN args.top_n ELSE DefaultTopN

\* groq_base.py lines 22-26: the first get_company_overview
Groq_get_company_overview_1(args, resp, now, padsYear, newRequests) ==
    Groq_retrieve_from_endpoint(
        URL_API \o <<"/get_qcc_tema_by_team">>, resp, newRequests)

\* groq_base.py lines 28-32: the second get_company_overview
Groq_get_company_overview_2(args, resp, now, padsYear, newRequests) ==
    Groq_retrieve_from_endpoint(
        <<Host, "/v1/company/report/">> \o args.stock
            \o <<"/?sections=overview">>, resp, newRequests)

Groq_get_top_companies_by_tx_volume(args, resp, now, padsYear, newRequests) ==
    Groq_retrieve_from_endpoint(
        <<Host, "/v1/most-traded/?start=">> \o args.start_date
            \o <<"&end=">> \o args.end_date
            \o <<"&n_stock=">> \o IntStr(TopN(args)), resp, newRequests)

Groq_get_daily_tx(args, resp, now, padsYear, newRequests) ==
    Groq_retrieve_from_endpoint(
        <<Host, "/v1/daily/">> \o args.stock
            \o <<"/?start=">> \o args.start_date
            \o <<"&end=">> \o args.end_date, resp, newRequests)

Llama_get_company_overview(args, resp, now, padsYear, newRequests) ==
    Llama_retrieve_from_endpoint(
        <<Host, "/v1/company/report/">> \o args.stock
            \o <<"/?sections=overview">>, resp, newRequests)

Llama_get_top_companies_by_tx_volume(args, resp, now, padsYear, newRequests) ==
    LET start_date == format_date(args.start_date, now, padsYear)
        end_date == format_date(args.end_date, now, padsYear)
    IN  IF start_date.kind = "raise" THEN Ran(<<>>, start_date)
        ELSE IF end_date.kind = "raise" THEN Ran(<<>>, end_date)
        ELSE Llama_retrieve_from_endpoint(
                 <<Host, "/v1/most-traded/?start=">> \o start_date.value
                     \o <<"&end=">> \o end_date.value
                     \o <<"&n_stock=">> \o IntStr(TopN(args)), resp, newRequests)

Llama_get_daily_tx(args, resp, now, padsYear, newRequests) ==
    LET start_date == format_date(args.start_date, now, padsYear)
        end_date == format_date(args.end_date, now, padsYear)
    IN  IF start_date.kind = "raise" THEN Ran(<<>>, start_date)
        ELSE IF end_date.kind = "raise" THEN Ran(<<>>, end_date)
        ELSE Llama_retrieve_from_endpoint(
                 <<Host, "/v1/daily/">> \o args.stock
                     \o <<"/?start=">> \o start_date.value
                     \o <<"&end=">> \o end_date.value, resp, newRequests)

\* the @tool definitions of each file, in the order the module executes them
Def(name, body) == [name |-> name, body |-> body]

GroqDefs ==
    << Def("get_company_overview", "Groq_get_company_overview_1"),
       Def("get_company_overview", "Groq_get_company_overview_2"),
       Def("get_top_companies_by_tx_volume", "Groq_get_top_companies_by_tx_volume"),
       Def("get_daily_tx", "Groq_get_daily_tx") >>

LlamaDefs ==
    << Def("get_company_overview", "Llama_get_company_overview"),
       Def("get_top_companies_by_tx_volume", "Llama_get_top_companies_by_tx_volume"),
       Def("get_daily_tx", "Llama_get_daily_tx") >>

Variants == {"groq", "llama"}

Defs(variant) == IF variant = "groq" THEN GroqDefs ELSE LlamaDefs

\* a binding in which the first def of a name stays
Bound_first(defs, name) ==
    defs[CHOOSE i \in 1..Len(defs) :
             /\ defs[i].name = name
             /\ \A j \in 1..(i - 1) : defs[j].name # name]

\* the object a module-level name is bound to once every definition has run:
\* a later def of a name rebinds it
Bound(defs, name) ==
    defs[CHOOSE i \in 1..Len(defs) :
             /\ defs[i].name = name
             /\ \A j \in (i + 1)..Len(defs) : defs[j].name # name]

\* tools = [get_company_overview, get_top_companies_by_tx_volume, get_daily_tx]
tools(variant) ==
    << Bound(Defs(variant), "get_company_overview"),
       Bound(Defs(variant), "get_top_companies_by_tx_volume"),
       Bound(Defs(variant), "get_daily_tx") >>

\* the body of a tool, run
RunBody(body, args, resp, now, padsYear, newRequests) ==
    CASE body = "Groq_get_company_overview_1" ->
             Groq_get_company_overview_1(args, resp, now, padsYear, newRequests)
      [] body = "Groq_get_company_overview_2" ->
             Groq_get_company_overview_2(args, resp, now, padsYear, newRequests)
      [] body = "Groq_get_top_companies_by_tx_volume" ->
             Groq_get_top_companies_by_tx_volume(args, resp, now, padsYear, newRequests)
      [] body = "Groq_get_daily_tx" ->
             Groq_get_daily_tx(args, resp, now, padsYear, newRequests)
      [] body = "Llama_get_company_overview" ->
             Llama_get_company_overview(args, resp, now, padsYear, newRequests)
      [] body = "Llama_get_top_companies_by_tx_volume" ->
             Llama_get_top_companies_by_tx_volume(args, resp, now, padsYear, newRequests)
      [] body = "Llama_get_daily_tx" ->
             Llama_get_daily_tx(args, resp, now, padsYear, newRequests)

\* the agent executor invoking the tool of the catalog that has the name
InvokeTool(variant, name, args, resp, now, padsYear, newRequests) ==
    LET catalog == tools(variant)
        t == catalog[CHOOSE i \in 1..Len(catalog) : catalog[i].name = name]
    IN  RunBody(t.body, args, resp, now, padsYear, newRequests)

-----------------------------------------------------------------------------
(* The invocations the model makes *)

Stocks == {<<"B", "B", "C", "A">>, <<"G", "O", "T", "O">>}

MaxTopN == 12

TopNs == {-1, 0, 3, DefaultTopN, MaxTopN}

DateArgs ==
    { Join3(Field(2024, 4), Field(6, 2), Field(1, 2), "-"),
      Join3(Field(2024, 4), Field(6, 2), Field(30, 2), "-"),
      Join3(Field(2024, 4), Field(6, 0), Field(1, 0), "-"),
      Join3(Field(2023, 4), Field(2, 2), Field(29, 2), "-"),
      Join3(Field(999, 4), Field(1, 2), Field(2, 2), "-"),
      Join3(Field(1, 2), Field(6, 2), Field(2024, 4), "/"),
      Join3(Field(30, 0), Field(6, 0), Field(2024, 4), "/"),
      Join3(Field(6, 2), Field(30, 2), Field(2024, 4), "/"),
      Join3(Field(2024, 4), Field(6, 2), Field(1, 2), "/"),
      <<>>,
      <<"t", "o", "d", "a", "y">> }

Call(name, args) == [tool |-> name, args |-> args]

Calls ==
    {Call("get_company_overview", [stock |-> s]) : s \in Stocks}
    \cup {Call("get_top_companies_by_tx_volume",
               [start_date |-> a, end_date |-> b])
            : a \in DateArgs, b \in DateArgs}
    \cup {Call("get_top_companies_by_tx_volume",
               [start_date |-> a, end_date |-> b, top_n |-> k])
            : a \in DateArgs, b \in DateArgs, k \in TopNs}
    \cup {Call("get_daily_tx", [stock |-> s, start_date |-> a, end_date |-> b])
            : s \in Stocks, a \in DateArgs, b \in DateArgs}

-----------------------------------------------------------------------------
(* The tool layer: one invocation, run by each variant against the same    *)
(* answer of the data API                                                  *)

\* the parts of the state a specification does not use stay as they are here
DateIdle == fd_date = None /\ fd_result = None

ToolIdle ==
    /\ call = None
    /\ response = None
    /\ sent = [v \in Variants |-> <<>>]
    /\ outcome = [v \in Variants |-> None]

\* no tool invocation yet by the agent invocation that starts
ToolReset ==
    /\ call' = None
    /\ response' = None
    /\ sent' = [v \in Variants |-> <<>>]
    /\ outcome' = [v \in Variants |-> None]

LoopIdle ==
    /\ pc = "none"
    /\ stdin = <<>>
    /\ consumed = <<>>
    /\ qi = 0
    /\ invoked = <<>>
    /\ toolcalls = 0
    /\ stdout = <<>>
    /\ logged = <<>>
    /\ error = None

Init ==
    /\ call \in Calls
    /\ response \in Responses
    /\ today \in Todays
    /\ sent = [v \in Variants |-> <<>>]
    /\ outcome = [v \in Variants |-> None]
    /\ DateIdle
    /\ LoopIdle

Invoke(variant) ==
    /\ call # None
    /\ outcome[variant] = None
    /\ \E padsYear \in BOOLEAN, newRequests \in BOOLEAN :
           LET ran == InvokeTool(variant, call.tool, call.args, response, today,
                                 padsYear, newRequests)
           IN  /\ sent' = [sent EXCEPT ![variant] = ran.sent]
               /\ outcome' = [outcome EXCEPT ![variant] = ran.result]
    /\ UNCHANGED <<call, response, today, dateVars, loopVars>>

GroqInvoke == Invoke("groq")

LlamaInvoke == Invoke("llama")

Next == GroqInvoke \/ LlamaInvoke

Spec == Init /\ [][Next]_vars

-----------------------------------------------------------------------------
(* format_date called on its own *)

InitDate ==
    /\ fd_date \in DateStrings
    /\ fd_result = None
    /\ today \in Todays
    /\ ToolIdle
    /\ LoopIdle

\* one call of format_date(fd_date) while the clock shows today
FormatDate ==
    /\ fd_date # None
    /\ fd_result = None
    /\ \E padsYear \in BOOLEAN :
           fd_result' = format_date(fd_date, today, padsYear)
    /\ UNCHANGED <<fd_date, today, toolVars, loopVars>>

NextDate == FormatDate

SpecDate == InitDate /\ [][NextDate]_vars

-----------------------------------------------------------------------------
(* The agent, as the two driver loops see it: an invocation makes zero or  *)
(* more tool invocations, one after the other, and then returns an answer  *)
(* or raises.  An exception a tool raises comes out of the invocation.     *)

MaxToolCalls == 2

LoopCalls ==
    { Call("get_company_overview", [stock |-> <<"B", "B", "C", "A">>]),
      Call("get_top_companies_by_tx_volume",
           [start_date |-> Join3(Field(2024, 4), Field(6, 2), Field(1, 2), "-"),
            end_date |-> Join3(Field(30, 2), Field(6, 2), Field(2024, 4), "/")]),
      Call("get_daily_tx",
           [stock |-> <<"B", "B", "C", "A">>,
            start_date |-> <<"t", "o", "d", "a", "y">>,
            end_date |-> Join3(Field(2024, 4), Field(6, 2), Field(30, 2), "-")]) }

Printed(kind, about) == [kind |-> kind, about |-> about]

\* one tool invocation by the agent of the variant; the exception of a tool
\* that raises is handed to onRaise
AgentTool(variant) ==
    /\ pc = "agent"
    /\ toolcalls < MaxToolCalls
    /\ toolcalls' = toolcalls + 1
    /\ \E c \in LoopCalls, resp \in Responses,
          padsYear \in BOOLEAN, newRequests \in BOOLEAN :
           LET ran == InvokeTool(variant, c.tool, c.args, resp, today,
                                 padsYear, newRequests)
           IN  /\ call' = c
               /\ response' = resp
               /\ sent' = [sent EXCEPT ![variant] = ran.sent]
               /\ outcome' = [outcome EXCEPT ![variant] = ran.result]
    /\ UNCHANGED <<today, dateVars>>

-----------------------------------------------------------------------------
(* groq_base.py: the interactive loop, lines 75-96 *)

\* str.lower() on the letters the model's lines use
LowerChar(c) ==
    CASE c = "E" -> "e" [] c = "X" -> "x" [] c = "I" -> "i" [] c = "T" -> "t"
      [] c = "Q" -> "q" [] c = "U" -> "u" [] c = "B" -> "b" [] c = "C" -> "c"
      [] c = "A" -> "a" [] OTHER -> c

Lower(s) == [i \in 1..Len(s) |-> LowerChar(s[i])]

\* ["exit", "quit"]
Sentinels == {<<"e", "x", "i", "t">>, <<"q", "u", "i", "t">>}

\* the test without lower()
IsSentinel_case_sensitive(user_query) == user_query \in Sentinels

\* user_query.lower() in ["exit", "quit"]
IsSentinel(user_query) == Lower(user_query) \in Sentinels

MaxLines == 2

Lines ==
    { <<"e", "x", "i", "t">>, <<"E", "X", "I", "T">>, <<"Q", "u", "i", "t">>,
      <<"e", "x", "i", "t", " ">>, <<"B", "B", "C", "A", "?">>, <<>> }

InitGroq ==
    /\ pc = "input"
    /\ stdin \in UNION {[1..n -> Lines] : n \in 0..MaxLines}
    /\ consumed = <<>>
    /\ qi = 0
    /\ invoked = <<>>
    /\ toolcalls = 0
    /\ stdout = <<Printed("banner", None)>>
    /\ logged = <<>>
    /\ error = None
    /\ today \in Todays
    /\ ToolIdle
    /\ DateIdle

\* lines 77-84: input(), the test for exit or quit, and the start of
\* agent_executor.invoke.  input() raises EOFError at the end of the input,
\* and nothing in the file catches it
GroqReadLine ==
    /\ pc = "input"
    /\ IF stdin = <<>>
       THEN /\ pc' = "crashed"
            /\ error' = Raise("EOFError")
            /\ stdout' = Append(stdout, Printed("prompt", None))
            /\ UNCHANGED <<stdin, consumed, invoked, toolcalls>>
       ELSE LET user_query == Head(stdin)
            IN  /\ stdin' = Tail(stdin)
                /\ consumed' = Append(consumed, user_query)
                /\ error' = error
                /\ IF IsSentinel(user_query)
                   THEN /\ stdout' = stdout \o <<Printed("prompt", None),
                                                 Printed("Goodbye!", None)>>
                        /\ pc' = "done"
                        /\ UNCHANGED <<invoked, toolcalls>>
                   ELSE /\ stdout' = Append(stdout, Printed("prompt", None))
                        /\ pc' = "agent"
                        /\ invoked' = Append(invoked, user_query)
                        /\ toolcalls' = 0
    /\ ToolReset
    /\ UNCHANGED <<qi, logged, today, dateVars>>

\* line 87, inside agent_executor.invoke: the agent invokes a tool.  No
\* try statement stands between the tool and the top of the file
GroqAgentTool ==
    /\ AgentTool("groq")
    /\ IF outcome'["groq"].kind = "raise"
       THEN pc' = "crashed" /\ error' = outcome'["groq"]
       ELSE UNCHANGED <<pc, error>>
    /\ UNCHANGED <<stdin, consumed, qi, invoked, stdout, logged>>

\* line 87: agent_executor.invoke raises on its own account (the model
\* backend fails, the agent gives up)
GroqAgentFail ==
    /\ pc = "agent"
    /\ pc' = "crashed"
    /\ error' = Raise("AgentError")
    /\ UNCHANGED <<stdin, consumed, qi, invoked, toolcalls, stdout, logged,
                   today, toolVars, dateVars>>

\* lines 87-96: agent_executor.invoke returns; the answer and the elapsed
\* time are printed
GroqAgentFinish ==
    /\ pc = "agent"
    /\ stdout' = stdout \o << Printed("AI Response:", None),
                              Printed("output", invoked[Len(invoked)]),
                              Printed("Execution Time", None) >>
    /\ pc' = "input"
    /\ UNCHANGED <<stdin, consumed, qi, invoked, toolcalls, logged, error,
                   today, toolVars, dateVars>>

NextGroq == GroqReadLine \/ GroqAgentTool \/ GroqAgentFail \/ GroqAgentFinish

SpecGroq == InitGroq /\ [][NextGroq]_vars

-----------------------------------------------------------------------------
(* llama_base.py: the batch loop, lines 97-117 *)

\* a query is kept as its words, a space between each two
queries ==
    << <<"What", "are", "the", "top", "3", "companies", "by", "transaction",
         "volume", "over", "the", "last", "7", "days?">>,
       <<"Based", "on", "the", "closing", "prices", "of", "BBCA", "between",
         "1st", "and", "30th", "of", "June", "2024,", "are", "we", "seeing",
         "an", "uptrend", "or", "downtrend?", "Try", "to", "explain", "why.">>,
       <<"What", "is", "the", "company", "with", "the", "largest", "market",
         "cap", "between", "BBCA", "and", "BREN?", "For", "said", "company,",
         "retrieve", "the", "email,", "phone", "number,", "listing", "date",
         "and", "website", "for", "further", "research.">>,
       <<"What", "is", "the", "performance", "of", "GOTO", "(symbol:", "GOTO)",
         "since", "its", "IPO", "listing?">>,
       <<"If", "I", "had", "invested", "into", "GOTO", "vs", "BREN", "on",
         "their", "respective", "IPO", "listing", "date,", "which", "one",
         "would", "have", "given", "me", "a", "better", "return", "over", "a",
         "90-day", "horizon?">> >>

\* query.strip(): with the words kept apart by single spaces, what is left
\* is empty exactly when there is no word
Strip(query) == SelectSeq(query, LAMBDA w : w # "")

InitLlama ==
    /\ pc = "loop"
    /\ qi = 1
    /\ invoked = <<>>
    /\ toolcalls = 0
    /\ stdout = <<>>
    /\ logged = <<>>
    /\ error = None
    /\ stdin = <<>>
    /\ consumed = <<>>
    /\ today \in Todays
    /\ ToolIdle
    /\ DateIdle

\* lines 107-114: the for loop takes the next query, skips an empty one and
\* starts agent.run on any other; after the last query the loop is over
LlamaNextQuery ==
    /\ pc = "loop"
    /\ IF qi > Len(queries)
       THEN pc' = "done" /\ UNCHANGED <<qi, invoked, toolcalls, logged>>
       ELSE IF Strip(queries[qi]) = <<>>
       THEN /\ logged' = Append(logged, Printed("warning", qi))
            /\ qi' = qi + 1
            /\ UNCHANGED <<pc, invoked, toolcalls>>
       ELSE /\ pc' = "agent"
            /\ invoked' = Append(invoked, queries[qi])
            /\ toolcalls' = 0
            /\ UNCHANGED <<qi, logged>>
    /\ ToolReset
    /\ UNCHANGED <<stdin, consumed, stdout, error, today, dateVars>>

\* line 114, inside agent.run: the agent invokes a tool; lines 116-117: an
\* exception of the tool comes out of agent.run and is caught and logged
LlamaAgentTool ==
    /\ AgentTool("llama")
    /\ IF outcome'["llama"].kind = "raise"
       THEN /\ logged' = Append(logged, Printed("error", qi))
            /\ pc' = "loop"
            /\ qi' = qi + 1
       ELSE UNCHANGED <<pc, qi, logged>>
    /\ UNCHANGED <<stdin, consumed, invoked, stdout, error>>

\* lines 114, 116-117: agent.run raises on its own account; caught and logged
LlamaAgentFail ==
    /\ pc = "agent"
    /\ logged' = Append(logged, Printed("error", qi))
    /\ pc' = "loop"
    /\ qi' = qi + 1
    /\ UNCHANGED <<stdin, consumed, invoked, toolcalls, stdout, error,
                   today, toolVars, dateVars>>

\* lines 114-115: agent.run returns and the answer is printed
LlamaAgentFinish ==
    /\ pc = "agent"
    /\ stdout' = Append(stdout, Printed("Answer:", queries[qi]))
    /\ pc' = "loop"
    /\ qi' = qi + 1
    /\ UNCHANGED <<stdin, consumed, invoked, toolcalls, logged, error,
                   today, toolVars, dateVars>>

NextLlama ==
    LlamaNextQuery \/ LlamaAgentTool \/ LlamaAgentFail \/ LlamaAgentFinish

SpecLlama == InitLlama /\ [][NextLlama]_vars

\* the interpreter keeps running the program: a step that can be taken is taken
FairSpecLlama == SpecLlama /\ WF_vars(NextLlama)

-----------------------------------------------------------------------------
(* The tool layer and format_date together: the behaviours of both *)

InitToolsAndDates == Init \/ InitDate

NextToolsAndDates == GroqInvoke \/ LlamaInvoke \/ FormatDate

SpecToolsAndDates == InitToolsAndDates /\ [][NextToolsAndDates]_vars

-----------------------------------------------------------------------------
(* Reading a request back *)

StartKeys == {"/v1/most-traded/?start=", "/?start="}
EndKeys == {"&end="}
NStockKeys == {"&n_stock="}
QueryKeys == StartKeys \cup EndKeys \cup NStockKeys

HasKey(url, keys) == \E i \in 1..Len(url) : url[i] \in keys

\* the text that follows the key in the URL, up to the next key or the end
ValueOf(url, keys) ==
    LET i == CHOOSE k \in 1..Len(url) : url[k] \in keys
        stops == {j \in (i + 1)..Len(url) : url[j] \in QueryKeys}
        stop == IF stops = {} THEN Len(url) + 1
                ELSE CHOOSE j \in stops : \A k \in stops : j <= k
    IN  SubSeq(url, i + 1, stop - 1)

\* YYYY-MM-DD: four digits, two digits and two digits with dashes between
IsCanonical(s) ==
    /\ Len(s) = 10
    /\ \A i \in {1, 2, 3, 4, 6, 7, 9, 10} : IsDigit(s[i])
    /\ s[5] = "-" /\ s[8] = "-"

\* DD/MM/YYYY
IsDmyShaped(s) ==
    /\ Len(s) = 10
    /\ \A i \in {1, 2, 4, 5, 7, 8, 9, 10} : IsDigit(s[i])
    /\ s[3] = "/" /\ s[6] = "/"

\* the calendar, written down apart from the model of strptime
MonthLengths == <<31, 28, 31, 30, 31, 30, 31, 31, 30, 31, 30, 31>>

IsRealDate(y, m, d) ==
    /\ y \in 1..9999
    /\ m \in 1..12
    /\ d >= 1
    /\ d <= MonthLengths[m]
            + (IF m = 2 /\ (y % 400 = 0 \/ (y % 4 = 0 /\ y % 100 # 0)) THEN 1 ELSE 0)

YmdYear(s) == ToInt(SubSeq(s, 1, 4))
YmdIsReal(s) ==
    IsRealDate(YmdYear(s), ToInt(SubSeq(s, 6, 7)), ToInt(SubSeq(s, 9, 10)))

DmyYear(s) == ToInt(SubSeq(s, 7, 10))
DmyIsReal(s) ==
    IsRealDate(DmyYear(s), ToInt(SubSeq(s, 4, 5)), ToInt(SubSeq(s, 1, 2)))

\* DD/MM/YYYY rewritten as YYYY-MM-DD, character by character
DmyRewritten(s) ==
    SubSeq(s, 7, 10) \o <<"-">> \o SubSeq(s, 4, 5) \o <<"-">> \o SubSeq(s, 1, 2)

\* the date of the clock as YYYY-MM-DD
TodayText ==
    Join3(Field(today.year, 4), Field(today.month, 2), Field(today.day, 2), "-")

DateTools == {"get_top_companies_by_tx_volume", "get_daily_tx"}

Ended(v) == outcome[v] # None

IsErrorTagged(o) == o.kind = "return" /\ "error" \in DOMAIN o.value

-----------------------------------------------------------------------------
(* Claims about the tool layer (Spec, SpecDate, SpecToolsAndDates) *)

\* C1: in both variants, every request of get_top_companies_by_tx_volume and
\* of get_daily_tx carries start= and end= values in canonical YYYY-MM-DD
\* form, whatever the start_date and end_date strings of the invocation
C1_DatesCanonicalInBothVariants ==
    \A v \in Variants :
        call # None /\ call.tool \in DateTools =>
            \A i \in 1..Len(sent[v]) :
                /\ IsCanonical(ValueOf(sent[v][i].url, StartKeys))
                /\ IsCanonical(ValueOf(sent[v][i].url, EndKeys))

OutcomeKind(o) ==
    IF o.kind = "raise" THEN "exception"
    ELSE IF IsErrorTagged(o) THEN "error-tagged payload"
    ELSE "payload"

IsNon2xx(resp) == resp.kind = "http" /\ ~(resp.status \in 200..299)

\* C2: for the same tool invocation and the same non-2xx response, the two
\* variants end the same way: both raise or both return an error-tagged
\* payload
C2_SameOutcomeOnFailure ==
    Ended("groq") /\ Ended("llama") /\ IsNon2xx(response) =>
        OutcomeKind(outcome["groq"]) = OutcomeKind(outcome["llama"])

Unparseable(s) ==
    Strptime(s, FmtYmd).kind = "raise" /\ Strptime(s, FmtDmy).kind = "raise"

\* C4: for a string that parses under neither format, format_date does not
\* raise and returns the date of the clock as YYYY-MM-DD; the tool of
\* llama_base.py that was given such a string issues its one request with
\* the date of the clock in its place, and ends as the request ends, with no
\* exception on account of the date
C4_UnparseableBecomesToday ==
    /\ fd_result # None /\ Unparseable(fd_date) =>
           fd_result = Return(TodayText) /\ IsCanonical(TodayText)
    /\ Ended("llama") /\ call.tool \in DateTools =>
           /\ Len(sent["llama"]) = 1
           /\ Unparseable(call.args.start_date) =>
                  ValueOf(sent["llama"][1].url, StartKeys) = TodayText
           /\ Unparseable(call.args.end_date) =>
                  ValueOf(sent["llama"][1].url, EndKeys) = TodayText
           /\ outcome["llama"].kind = "raise" =>
                  ~response.json /\ outcome["llama"].exc = "json.JSONDecodeError"
           /\ response.kind = "http" /\ response.status = 200 /\ response.json =>
                  outcome["llama"] = Return(response.value)

\* get_daily_tx of llama_base.py was given the empty string as start_date
\* and has returned the body of the answer
C4_Witness ==
    /\ Ended("llama")
    /\ call.tool = "get_daily_tx"
    /\ call.args.start_date = <<>>
    /\ ValueOf(sent["llama"][1].url, StartKeys) = TodayText
    /\ outcome["llama"] = Return([data |-> "rows"])

\* C5: every invocation of a tool, in either variant, issues exactly one GET
\* with the Authorization header set to the credential, whether the request
\* succeeds or fails: no second request, and no end without the request
C5_OneAuthorizedGetPerInvocation ==
    \A v \in Variants :
        Ended(v) =>
            /\ Len(sent[v]) = 1
            /\ sent[v][1].method = "GET"
            /\ sent[v][1].headers = [Authorization |-> SECTORS_API_KEY]

\* both variants have run the invocation against a failing answer
C5_Witness ==
    /\ IsFailure(response)
    /\ Ended("groq") /\ outcome["groq"].kind = "raise"
    /\ Ended("llama") /\ IsErrorTagged(outcome["llama"])
    /\ Len(sent["groq"]) = 1 /\ Len(sent["llama"]) = 1

OverviewUrl(S) ==
    <<"https://api.sectors.app", "/v1/company/report/">> \o S
        \o <<"/?sections=overview">>

\* C6: in both variants the tool the catalog holds under the name
\* get_company_overview requests /v1/company/report/S/?sections=overview
\* for the symbol S; no request goes to {URL_API}/get_qcc_tema_by_team; and
\* the catalog holds three operations, one under each name
C6_OverviewPath ==
    \A v \in Variants :
        /\ Len(tools(v)) = 3
        /\ {tools(v)[i].name : i \in 1..3}
               = {"get_company_overview", "get_top_companies_by_tx_volume",
                  "get_daily_tx"}
        /\ \A i \in 1..Len(sent[v]) :
               /\ Head(sent[v][i].url) # Head(URL_API)
               /\ sent[v][i].url[Len(sent[v][i].url)] # "/get_qcc_tema_by_team"
        /\ Ended(v) /\ call.tool = "get_company_overview" =>
               /\ Len(sent[v]) = 1
               /\ sent[v][1].url = OverviewUrl(call.args.stock)

\* both variants have run get_company_overview("BBCA")
C6_Witness ==
    /\ call # None
    /\ call.tool = "get_company_overview"
    /\ call.args.stock = <<"B", "B", "C", "A">>
    /\ \A v \in Variants :
           /\ Ended(v)
           /\ sent[v][1].url = <<"https://api.sectors.app", "/v1/company/report/",
                                 "B", "B", "C", "A", "/?sections=overview">>

\* a decimal numeral read back as a number
Numeral(s) ==
    IF Len(s) > 1 /\ s[1] = "-" THEN 0 - ToInt(Tail(s)) ELSE ToInt(s)

IsNumeral(s) ==
    /\ Len(s) >= 1
    /\ IF s[1] = "-" THEN Len(s) > 1 /\ AllDigits(Tail(s)) ELSE AllDigits(s)

\* C7: in both variants get_top_companies_by_tx_volume issues n_stock=5 when
\* top_n is omitted and n_stock=k when top_n = k is given
C7_TopNDefault ==
    \A v \in Variants :
        Ended(v) /\ call.tool = "get_top_companies_by_tx_volume" =>
            /\ Len(sent[v]) = 1
            /\ HasKey(sent[v][1].url, NStockKeys)
            /\ LET n_stock == ValueOf(sent[v][1].url, NStockKeys)
               IN  IF "top_n" \in DOMAIN call.args
                   THEN IsNumeral(n_stock) /\ Numeral(n_stock) = call.args.top_n
                   ELSE n_stock = <<"5">>

\* both variants have run the tool with top_n omitted
C7_Witness ==
    /\ call # None
    /\ call.tool = "get_top_companies_by_tx_volume"
    /\ ~("top_n" \in DOMAIN call.args)
    /\ \A v \in Variants :
           Ended(v) /\ ValueOf(sent[v][1].url, NStockKeys) = <<"5">>

\* both variants have run the tool with top_n = MaxTopN
C7_WitnessExplicit ==
    /\ call # None
    /\ call.tool = "get_top_companies_by_tx_volume"
    /\ "top_n" \in DOMAIN call.args
    /\ call.args.top_n = MaxTopN
    /\ \A v \in Variants : Ended(v)

-----------------------------------------------------------------------------
(* Claims about the interactive loop of groq_base.py (SpecGroq) *)

\* equal to exit or quit when the case of the letters is ignored, written
\* down apart from the model of str.lower
CasePairs ==
    { <<"e", "E">>, <<"x", "X">>, <<"i", "I">>, <<"t", "T">>,
      <<"q", "Q">>, <<"u", "U">> }

SameLetter(a, b) == a = b \/ <<a, b>> \in CasePairs \/ <<b, a>> \in CasePairs

IsExitOrQuit(line) ==
    \E w \in {<<"e", "x", "i", "t">>, <<"q", "u", "i", "t">>} :
        Len(line) = Len(w) /\ \A i \in 1..Len(w) : SameLetter(line[i], w[i])

Front(q) == SubSeq(q, 1, Len(q) - 1)

Banner == <<Printed("banner", None)>>
Prompt == <<Printed("prompt", None)>>

\* what the loop prints for lines it has dealt with in full: for exit or
\* quit the prompt and the farewell, for any other line the prompt, the
\* answer of the agent and then the elapsed time
RECURSIVE Transcript(_)
Transcript(ls) ==
    IF ls = <<>> THEN <<>>
    ELSE Transcript(Front(ls)) \o Prompt \o
         (IF IsExitOrQuit(ls[Len(ls)])
          THEN <<Printed("Goodbye!", None)>>
          ELSE << Printed("AI Response:", None),
                  Printed("output", ls[Len(ls)]),
                  Printed("Execution Time", None) >>)

\* what holds of the loop whether or not something is raised: the agent was
\* invoked once for each line read that is not exit or quit, and for no
\* other; nothing was read after exit or quit; before a line is read, each
\* line read so far has its answer and its elapsed time printed, in order
C8_Common ==
    /\ invoked = SelectSeq(consumed, LAMBDA l : ~IsExitOrQuit(l))
    /\ \A i \in 1..(Len(consumed) - 1) : ~IsExitOrQuit(consumed[i])
    /\ pc = "input" => stdout = Banner \o Transcript(consumed)
    /\ pc = "agent" =>
           /\ consumed # <<>> /\ ~IsExitOrQuit(consumed[Len(consumed)])
           /\ stdout = Banner \o Transcript(Front(consumed)) \o Prompt
    /\ pc = "done" =>
           /\ consumed # <<>> /\ IsExitOrQuit(consumed[Len(consumed)])
           /\ stdout = Banner \o Transcript(consumed)

\* C8 as stated, for as long as the input lasts: a line equal to exit or
\* quit, whatever its case, ends the loop with no agent invocation; every
\* other line causes one agent invocation, then the answer and then the
\* elapsed time are printed before the next line is read; the loop ends only
\* on exit or quit
C8_Original ==
    /\ C8_Common
    /\ pc = "crashed" => error = Raise("EOFError")

\* C8 as amended: as stated for a line whose agent invocation returns; an
\* invocation that raises prints nothing for its line and ends the loop with
\* its exception; and the end of the input ends the loop with EOFError.  The
\* loop ends on exit or quit, on such an exception, or at the end of input
C8_Amended ==
    /\ C8_Common
    /\ pc # "crashed" => error = None
    /\ pc = "crashed" =>
           \/ /\ error = Raise("EOFError")
              /\ stdin = <<>>
              /\ stdout = Banner \o Transcript(consumed) \o Prompt
           \/ /\ error.kind = "raise" /\ error.exc # "EOFError"
              /\ consumed # <<>> /\ ~IsExitOrQuit(consumed[Len(consumed)])
              /\ stdout = Banner \o Transcript(Front(consumed)) \o Prompt

\* a query was answered and then EXIT, in capitals, ended the loop
C8_Witness ==
    /\ pc = "done"
    /\ consumed = << <<"B", "B", "C", "A", "?">>, <<"E", "X", "I", "T">> >>
    /\ invoked = << <<"B", "B", "C", "A", "?">> >>
    /\ Len(stdout) = 7

\* the step in which the agent's tool invocation meets a failure of the data
\* API: a network error or a non-2xx status
ToolMeetsFailure ==
    /\ pc = "agent"
    /\ toolcalls' = toolcalls + 1
    /\ IsFailure(response')

\* C9 as stated: in groq_base.py a failure of the data API comes out of the
\* tool as an exception and ends the processing of the query with no answer
\* printed, and the loop goes on to read the next query
C9_Original ==
    [][ToolMeetsFailure =>
           /\ outcome'["groq"].kind = "raise"
           /\ stdout' = stdout
           /\ pc' = "input"]_vars

\* C9 as amended: in groq_base.py a failure of the data API comes out of the
\* tool as an exception (HTTPError or ConnectionError), which nothing
\* catches: no answer is printed for the query and the program ends there,
\* reading no further query
C9_Amended ==
    [][/\ pc # "crashed"
       /\ ToolMeetsFailure =>
              /\ outcome'["groq"].kind = "raise"
              /\ outcome'["groq"].exc \in {"HTTPError", "ConnectionError"}
              /\ error' = outcome'["groq"]
              /\ stdout' = stdout
              /\ pc' = "crashed"]_vars

\* a 4xx or 5xx answer has ended the program with a line left unread
C9_Witness ==
    /\ pc = "crashed"
    /\ error = Raise("HTTPError")
    /\ response.kind = "http" /\ response.status = 404
    /\ stdin # <<>>
    /\ stdout = Banner \o Prompt

-----------------------------------------------------------------------------
(* Claims about the batch loop of llama_base.py (FairSpecLlama) *)

\* the queries are passed to the agent in list order, each once
C10_Order ==
    /\ Len(invoked) <= Len(queries)
    /\ invoked = SubSeq(queries, 1, Len(invoked))
    /\ pc = "agent" => Len(invoked) = qi
    /\ pc = "loop" => Len(invoked) = qi - 1
    /\ pc = "done" =>
           /\ invoked = queries
           /\ Len(stdout) + Len(logged) = Len(queries)
    /\ error = None

\* a failure of the data API reaches the agent as a returned error payload
\* and the agent invocation goes on; an agent invocation that ends, with an
\* answer or with an exception, hands over to the next query, the exception
\* logged
C10_Step ==
    /\ ToolMeetsFailure =>
           /\ IsErrorTagged(outcome'["llama"])
           /\ pc' = "agent" /\ qi' = qi /\ logged' = logged
    /\ pc = "agent" /\ pc' # "agent" =>
           /\ pc' = "loop"
           /\ qi' = qi + 1
           /\ \/ stdout' = Append(stdout, Printed("Answer:", queries[qi]))
                 /\ logged' = logged
              \/ logged' = Append(logged, Printed("error", qi))
                 /\ stdout' = stdout

\* C10: in llama_base.py each query of the list is passed to the agent once,
\* in list order; a failure of the data API inside a tool reaches the agent
\* as a returned {"error": message} payload and not as an exception; an
\* exception raised while a query is processed is caught, so that the later
\* queries are processed too; and the loop ends after the last query
C10_BatchLoop ==
    /\ []C10_Order
    /\ [][C10_Step]_vars
    /\ <>(pc = "done")

\* the loop is over; the first query ended in an exception and the four
\* after it were answered
C10_Witness ==
    /\ pc = "done"
    /\ logged = <<Printed("error", 1)>>
    /\ Len(stdout) = 4
    /\ invoked = queries

====
